---- MODULE Spec2Model ----
(***************************************************************************)
(* University enrolment system: the record store (students.data), the     *)
(* Student / Subject entities and the three controllers that load, edit   *)
(* and save the whole record set.                                          *)
(*                                                                         *)
(* Strings are sequences of one-character strings, so that the two regular *)
(* expressions of the credential validator are computed, not assumed.      *)
(***************************************************************************)
EXTENDS Integers, Sequences, FiniteSets, TLC

VARIABLES
    store,   \* the pickled dict of students.data: a sequence of [key, val] in insertion order
    held,    \* the Student object the caller holds (logged_in_student), or NoStudent
    last,    \* the last controller call: operation, arguments, outcome, store accesses in order
    ops      \* number of controller calls made so far

vars == <<store, held, last, ops>>

----------------------------------------------------------------------------
(* Bounds of the model *)

\* random.randint(1, 999999) is drawn from 1..IdSpace
IdSpace == 2
\* random.randint(1, 999) is drawn from 1..SubjSpace
SubjSpace == 5
\* number of controller calls in one run
MaxOps == 4
\* number of controller calls in one run of SpecWellFormed
MaxOpsWellFormed == 5
\* number of reports asked for in one run of SpecReports
MaxReports == 1
\* subjects of each student in the two-student stores of SpecReports
PairLen == 1
\* the turns of generate_student_id's while loop are counted modulo DrawCycle
DrawCycle == 2
\* number of controller calls in one run of SpecFrame
MaxOpsFrame == 3

(* Program constants *)

\* len(self.subjects) >= 4
MaxSubjects == 4
\* random.randint(25, 100)
MinMark == 25
MaxMark == 100

----------------------------------------------------------------------------
(* Strings *)

Upper == {"A","B","C","D","E","F","G","H","I","J","K","L","M",
          "N","O","P","Q","R","S","T","U","V","W","X","Y","Z"}
Lower == {"a","b","c","d","e","f","g","h","i","j","k","l","m",
          "n","o","p","q","r","s","t","u","v","w","x","y","z"}
Letter == Upper \cup Lower
Digit == {"0","1","2","3","4","5","6","7","8","9"}

DigitChar(d) == CASE d = 0 -> "0" [] d = 1 -> "1" [] d = 2 -> "2" [] d = 3 -> "3"
                  [] d = 4 -> "4" [] d = 5 -> "5" [] d = 6 -> "6" [] d = 7 -> "7"
                  [] d = 8 -> "8" [] d = 9 -> "9"

\* f"{n:03}"
Fmt3(n) == <<DigitChar((n \div 100) % 10), DigitChar((n \div 10) % 10), DigitChar(n % 10)>>

\* f"{n:06}"
Fmt6(n) == <<DigitChar((n \div 100000) % 10), DigitChar((n \div 10000) % 10),
             DigitChar((n \div 1000) % 10)>> \o Fmt3(n)

UniversityCom == <<"@","u","n","i","v","e","r","s","i","t","y",".","c","o","m">>

\* Python's $ matches at the end of the string and before a final newline
DollarEnds(s) == {s} \cup (IF Len(s) > 0 /\ s[Len(s)] = "\n" THEN {SubSeq(s, 1, Len(s) - 1)} ELSE {})

\* ^[a-zA-Z]+\.[a-zA-Z]+@university\.com
EmailPattern(s) ==
    \E k \in 2..Len(s), m \in 4..Len(s) :
        /\ k + 1 < m
        /\ \A i \in 1..(k - 1) : s[i] \in Letter
        /\ s[k] = "."
        /\ \A i \in (k + 1)..(m - 1) : s[i] \in Letter
        /\ SubSeq(s, m, Len(s)) = UniversityCom

\* ^[A-Z][a-zA-Z]{4,}\d{3,}
PasswordPattern(s) ==
    \E k \in 5..Len(s) :
        /\ s[1] \in Upper
        /\ \A i \in 2..k : s[i] \in Letter
        /\ Len(s) - k >= 3
        /\ \A i \in (k + 1)..Len(s) : s[i] \in Digit

_is_valid_email(email) == \E t \in DollarEnds(email) : EmailPattern(t)

_is_valid_password(password) == \E t \in DollarEnds(password) : PasswordPattern(t)

----------------------------------------------------------------------------
(* Inputs a caller can type *)

EmailA == <<"a",".","b">> \o UniversityCom
EmailB == <<"c",".","d">> \o UniversityCom
EmailBad == <<"a","b">> \o UniversityCom
Emails == {EmailA, EmailB, EmailBad}

PwdA == <<"A","b","c","d","e","1","2","3">>
PwdB == <<"H","e","l","l","o","4","5","6">>
PwdBad == <<"a","b","c","d","e","1","2","3">>
Passwords == {PwdA, PwdB, PwdBad}

Ann == <<"A","n","n">>
Names == {Ann}

\* the marks random.randint(MinMark, MaxMark) is sampled at
Marks == {m \in MinMark..MaxMark : m \in {40, 60}}

StudentIds == {Fmt6(n) : n \in 1..IdSpace}
SubjectIds == {Fmt3(n) : n \in 1..SubjSpace}

----------------------------------------------------------------------------
(* Grade policy and entities *)

\* the lower bounds taken as exclusive: a mark of exactly 50 is a Z
assign_grade_q_exclusive(total, n) ==
    IF total <= 50 * n THEN "Z"
    ELSE IF total <= 65 * n THEN "P"
    ELSE IF total <= 75 * n THEN "C"
    ELSE IF total <= 85 * n THEN "D"
    ELSE "HD"

\* Subject.assign_grade on the mark total / n (n > 0). An average is the float
\* total / len; with at most 4 integer marks it is apart from every integer bound
\* by 1/4 or more unless it equals it, so the float comparison is the exact one.
assign_grade_q(total, n) ==
    IF total < 50 * n THEN "Z"
    ELSE IF total < 65 * n THEN "P"
    ELSE IF total < 75 * n THEN "C"
    ELSE IF total < 85 * n THEN "D"
    ELSE "HD"

assign_grade(mark) == assign_grade_q(mark, 1)

\* the grade left at Z whatever the mark
Subject_ungraded(n, mark) == [id |-> Fmt3(n), mark |-> mark, grade |-> "Z"]

\* Subject(): the dict Student.enroll_subject keeps of it
Subject(n, mark) == [id |-> Fmt3(n), mark |-> mark, grade |-> assign_grade(mark)]

NoStudent == [none |-> TRUE]

\* the name and the email taken for each other
Student_swapped(id, name, email, password) ==
    [id |-> id, name |-> email, email |-> name, password |-> password, subjects |-> <<>>]

\* Student(name, email, password) with the id register_student assigns
Student(id, name, email, password) ==
    [id |-> id, name |-> name, email |-> email, password |-> password, subjects |-> <<>>]

subject_ids(student) == {student.subjects[i].id : i \in 1..Len(student.subjects)}

\* the last subject dropped, whatever its id
drop_subject_last(student, subject_id) ==
    [student EXCEPT !.subjects = SubSeq(student.subjects, 1, Len(student.subjects) - 1)]

\* Student.drop_subject
drop_subject(student, subject_id) ==
    LET keep(subj) == subj.id # subject_id
    IN [student EXCEPT !.subjects = SelectSeq(student.subjects, keep)]

\* the capacity test off by one: a fifth subject passes
at_capacity_off_by_one(student) == Len(student.subjects) > MaxSubjects

\* the capacity test forgotten
at_capacity_unchecked(student) == FALSE

\* Student.enroll_subject: the capacity test
at_capacity(student) == Len(student.subjects) >= MaxSubjects

\* the new subject inserted at the head of the list
append_subject_in_front(student, n, mark) ==
    [student EXCEPT !.subjects = <<Subject(n, mark)>> \o student.subjects]

\* Student.enroll_subject: the append, for a Subject() whose id passed the while loop
append_subject(student, n, mark) ==
    [student EXCEPT !.subjects = Append(student.subjects, Subject(n, mark))]

----------------------------------------------------------------------------
(* Database: the dict of students.data, in insertion order *)

Keys(data) == {data[i].key : i \in 1..Len(data)}

Values(data) == {data[i].val : i \in 1..Len(data)}

Index(data, k) == CHOOSE i \in 1..Len(data) : data[i].key = k

\* data[k]
Get(data, k) == data[Index(data, k)].val

\* the dict saved with this one entry only
Put_alone(data, k, v) == <<[key |-> k, val |-> v]>>

\* data[k] = v
Put(data, k, v) ==
    IF k \in Keys(data)
    THEN [data EXCEPT ![Index(data, k)] = [key |-> k, val |-> v]]
    ELSE Append(data, [key |-> k, val |-> v])

\* del data[k]
Del(data, k) ==
    LET i == Index(data, k)
    IN SubSeq(data, 1, i - 1) \o SubSeq(data, i + 1, Len(data))

----------------------------------------------------------------------------
(* The record of the last call *)

NoArg == <<>>

\* op: the method called; email, password, arg: its arguments; result: what it
\* returned or printed; ret: the Student it returned (NoStudent if none);
\* log: its validations and store accesses, in program order
Call(op, email, password, arg, result, ret, log) ==
    [op |-> op, email |-> email, password |-> password, arg |-> arg,
     result |-> result, ret |-> ret, log |-> log]

MsgExists == "Student already exists."
MsgCapacity == "Students are allowed to enrol in 4 subjects only."
MsgIncorrectFormat == "Incorrect email or password format."
MsgNotExist == "Email and password formats acceptable. Student does not exist."

\* Database.__init__ keeps a students.data that exists and writes {} when there is
\* none: the first run starts empty, a later run starts from what an earlier run
\* saved (here a student registered, logged in and enrolled three times)
EarlierRun ==
    <<[key |-> EmailA,
       val |-> [Student(Fmt6(1), Ann, EmailA, PwdA) EXCEPT
                   !.subjects = <<Subject(1, 40), Subject(2, 60), Subject(3, 60)>>]]>>

InitialData == {<<>>, EarlierRun}

Init ==
    /\ store \in InitialData
    /\ held = NoStudent
    /\ last = Call("init", NoArg, NoArg, NoArg, "none", NoStudent, <<>>)
    /\ ops = 0

\* one more controller call
Step == ops' = ops + 1

----------------------------------------------------------------------------
(* StudentController *)

\* the password comparison forgotten: any well-formed password logs in
login_result_any_password(data, email, password) ==
    IF ~_is_valid_email(email) \/ ~_is_valid_password(password) THEN MsgIncorrectFormat
    ELSE IF email \notin Keys(data) THEN MsgNotExist
    ELSE "Student"

\* login_student: the message returned, or "Student" when data[email] is returned
login_result(data, email, password) ==
    IF ~_is_valid_email(email) \/ ~_is_valid_password(password) THEN MsgIncorrectFormat
    ELSE IF email \notin Keys(data) THEN MsgNotExist
    ELSE IF Get(data, email).password = password THEN "Student"
    ELSE MsgIncorrectFormat

\* login_student loads the data, then validates
login_log == <<"load", "validate">>

\* login_student, and the caller keeping what it returned (submit_login)
login_student(email, password) ==
    LET r == login_result(store, email, password)
        student == IF r = "Student" THEN Get(store, email) ELSE NoStudent
    IN /\ Step
       /\ held' = student
       /\ last' = Call("login_student", email, password, NoArg, r, student, login_log)
       /\ UNCHANGED store

\* the validation forgotten: any new password is taken
password_accepted_unchecked(new_password) == TRUE

\* change_student_password: the validation that guards the change
password_accepted(new_password) == _is_valid_password(new_password)

\* the new password set on the caller's object and never saved
change_student_password_unsaved(new_password) ==
    /\ held # NoStudent
    /\ Step
    /\ IF ~password_accepted(new_password)
       THEN /\ last' = Call("change_student_password", held.email, new_password, NoArg,
                            "Invalid password format.", NoStudent, <<"validate">>)
            /\ UNCHANGED <<store, held>>
       ELSE /\ held' = [held EXCEPT !.password = new_password]
            /\ last' = Call("change_student_password", held.email, new_password, NoArg,
                            "changed", NoStudent, <<"validate">>)
            /\ UNCHANGED store

change_student_password(new_password) ==
    /\ held # NoStudent
    /\ Step
    /\ IF ~password_accepted(new_password)
       THEN /\ last' = Call("change_student_password", held.email, new_password, NoArg,
                            "Invalid password format.", NoStudent, <<"validate">>)
            /\ UNCHANGED <<store, held>>
       ELSE LET student == [held EXCEPT !.password = new_password]
            IN /\ held' = student
               /\ store' = Put(store, student.email, student)
               /\ last' = Call("change_student_password", held.email, new_password, NoArg,
                               "changed", NoStudent, <<"validate", "load", "save">>)

\* generate_student_id: the ids the while loop can return
generate_student_id(data) ==
    {id \in StudentIds : id \notin {st.id : st \in Values(data)}}

\* the duplicate test forgotten: data[email] is overwritten
email_in_data_unchecked(data, email) == FALSE

\* register_student: the test "email in data"
email_in_data(data, email) == email \in Keys(data)

\* register_student after its arguments are bound; it validates nothing, and the
\* id is any that generate_student_id can return
register_effect(op, name, email, password, log) ==
    IF email_in_data(store, email)
    THEN /\ last' = Call(op, email, password, name, MsgExists, NoStudent,
                         log \o <<"load">>)
         /\ UNCHANGED store
    ELSE \E id \in generate_student_id(store) :
            LET student == Student(id, name, email, password)
            IN /\ store' = Put(store, email, student)
               /\ last' = Call(op, email, password, name, "Student", student,
                               log \o <<"load", "load", "save">>)

register_student(name, email, password) ==
    /\ Step
    /\ register_effect("register_student", name, email, password, <<>>)
    /\ UNCHANGED held

----------------------------------------------------------------------------
(* GUIUniApp *)

\* register_window.submit_registration: validate both fields, then register_student
submit_registration(name, email, password) ==
    /\ Step
    /\ UNCHANGED held
    /\ IF ~_is_valid_email(email)
       THEN /\ last' = Call("submit_registration", email, password, name,
                            "Invalid email format.", NoStudent, <<"validate">>)
            /\ UNCHANGED store
       ELSE IF ~_is_valid_password(password)
       THEN /\ last' = Call("submit_registration", email, password, name,
                            "Invalid password format.", NoStudent, <<"validate", "validate">>)
            /\ UNCHANGED store
       ELSE register_effect("submit_registration", name, email, password,
                            <<"validate", "validate">>)

\* logout
logout ==
    /\ held # NoStudent
    /\ Step
    /\ held' = NoStudent
    /\ last' = Call("logout", NoArg, NoArg, NoArg, "none", NoStudent, <<>>)
    /\ UNCHANGED store

----------------------------------------------------------------------------
(* SubjectController *)

\* the while loop forgotten: the first Subject() is taken
id_is_new_unchecked(student, n) == TRUE

\* Student.enroll_subject: the while loop ends on a Subject() whose id is new
id_is_new(student, n) == Fmt3(n) \notin subject_ids(student)

\* the Subject() drawn has number n and mark mark
enroll_subject ==
    /\ held # NoStudent
    /\ Step
    /\ IF at_capacity(held)
       THEN /\ last' = Call("enroll_subject", held.email, NoArg, NoArg,
                            MsgCapacity, NoStudent, <<>>)
            /\ UNCHANGED <<store, held>>
       ELSE \E n \in 1..SubjSpace, mark \in Marks :
               LET student == append_subject(held, n, mark)
               IN /\ id_is_new(held, n)
                  /\ held' = student
                  /\ store' = Put(store, student.email, student)
                  /\ last' = Call("enroll_subject", held.email, NoArg, Fmt3(n),
                                  "enrolled", NoStudent, <<"load", "save">>)

\* the test forgotten: every id is taken as enrolled
is_enrolled_unchecked(student, subject_id) == TRUE

\* remove_subject: the test that the subject is enrolled
is_enrolled(student, subject_id) ==
    \E i \in 1..Len(student.subjects) : student.subjects[i].id = subject_id

remove_subject(subject_id) ==
    /\ held # NoStudent
    /\ Step
    /\ IF ~is_enrolled(held, subject_id)
       THEN /\ last' = Call("remove_subject", held.email, NoArg, subject_id,
                            "not found", NoStudent, <<>>)
            /\ UNCHANGED <<store, held>>
       ELSE LET student == drop_subject(held, subject_id)
            IN /\ held' = student
               /\ store' = Put(store, student.email, student)
               /\ last' = Call("remove_subject", held.email, NoArg, subject_id,
                               "dropped", NoStudent, <<"load", "save">>)

----------------------------------------------------------------------------
(* AdminController *)

\* the comparison with student_id forgotten: every email is listed
to_remove_all(data, student_id) == data

\* remove_student: the emails whose student has this id, in dict order
to_remove(data, student_id) ==
    LET hit(entry) == entry.val.id = student_id
    IN SelectSeq(data, hit)

remove_student(student_id) ==
    /\ Step
    /\ UNCHANGED held
    /\ IF to_remove(store, student_id) # <<>>
       THEN /\ store' = Del(store, to_remove(store, student_id)[1].key)
            /\ last' = Call("remove_student", NoArg, NoArg, student_id, "True",
                            NoStudent, <<"load", "save">>)
       ELSE /\ last' = Call("remove_student", NoArg, NoArg, student_id, "False",
                            NoStudent, <<"load">>)
            /\ UNCHANGED store

clear_all_student_data ==
    /\ Step
    /\ store' = <<>>
    /\ last' = Call("clear_all_student_data", NoArg, NoArg, NoArg, "none", NoStudent, <<"save">>)
    /\ UNCHANGED held

----------------------------------------------------------------------------

\* what a caller can type for a subject id or a student id: the ids as the
\* program formats them, and one without its leading zeros
SubjectIdInputs == SubjectIds \cup {<<"1">>}
StudentIdInputs == StudentIds \cup {<<"1">>}

\* the menus: at most limit calls, with the emails and passwords typed
Calls(limit, emails, passwords) ==
    \/ ops < limit /\ \E e \in emails, p \in passwords : login_student(e, p)
    \/ ops < limit /\ \E p \in passwords : change_student_password(p)
    \/ ops < limit /\ \E nm \in Names, e \in emails, p \in passwords :
                          register_student(nm, e, p)
    \/ ops < limit /\ \E nm \in Names, e \in emails, p \in passwords :
                          submit_registration(nm, e, p)
    \/ ops < limit /\ logout
    \/ ops < limit /\ enroll_subject
    \/ ops < limit /\ \E sid \in SubjectIdInputs : remove_subject(sid)
    \/ ops < limit /\ \E id \in StudentIdInputs : remove_student(id)
    \/ ops < limit /\ clear_all_student_data

Next == Calls(MaxOps, Emails, Passwords)

Spec == Init /\ [][Next]_vars

\* the same menus used by callers who type well-formed credentials only
WellFormedEmails == {e \in Emails : _is_valid_email(e)}
WellFormedPasswords == {PwdA}

NextWellFormed == Calls(MaxOpsWellFormed, WellFormedEmails, WellFormedPasswords)

SpecWellFormed == Init /\ [][NextWellFormed]_vars

----------------------------------------------------------------------------
(* The admin reports and the grade policy on their own *)

RECURSIVE sum_marks(_)
\* sum(subject['mark'] for subject in self.subjects)
sum_marks(subjects) ==
    IF subjects = <<>> THEN 0
    ELSE subjects[1].mark + sum_marks(SubSeq(subjects, 2, Len(subjects)))

\* the average taken over the capacity, not over the subjects there are
calculate_average_mark_over_capacity(student) ==
    IF student.subjects = <<>> THEN <<0, 1>>
    ELSE <<sum_marks(student.subjects), MaxSubjects>>

\* Student.calculate_average_mark: <<total, n>> stands for total / n, 0 for no subjects
calculate_average_mark(student) ==
    IF student.subjects = <<>> THEN <<0, 1>>
    ELSE <<sum_marks(student.subjects), Len(student.subjects)>>

\* an average of exactly 50 taken as failing
is_passing_strict(student) ==
    LET avg == calculate_average_mark(student)
    IN avg[1] > 50 * avg[2]

\* passing taken as every subject's mark being 50 or more
is_passing_every_subject(student) ==
    \A i \in 1..Len(student.subjects) : student.subjects[i].mark >= 50

\* Student.is_passing
is_passing(student) ==
    LET avg == calculate_average_mark(student)
    IN avg[1] >= 50 * avg[2]

GradeKeys == {"HD", "D", "C", "P", "Z"}

\* group_students_by_grade: the groups dict, each list in the order of data.items()
groups_by_grade(data) ==
    LET row(i) == LET avg == calculate_average_mark(data[i].val)
                  IN <<data[i].val.name, data[i].val.id,
                       assign_grade_q(avg[1], avg[2]), avg>>
        rows == [i \in 1..Len(data) |-> row(i)]
    IN [grade \in GradeKeys |-> LET in_group(r) == r[3] = grade
                                IN SelectSeq(rows, in_group)]

\* partition_students_pass_fail: the passed and failed lists
pass_fail(data) ==
    LET row(i) == <<data[i].val.name, data[i].val.id, calculate_average_mark(data[i].val)>>
        rows == [i \in 1..Len(data) |-> <<is_passing(data[i].val), row(i)>>]
        pass(r) == r[1]
        fail(r) == ~r[1]
        strip(rs) == [i \in 1..Len(rs) |-> rs[i][2]]
    IN [passed |-> strip(SelectSeq(rows, pass)), failed |-> strip(SelectSeq(rows, fail))]

group_students_by_grade ==
    /\ Step
    /\ last' = Call("group_students_by_grade", NoArg, NoArg, NoArg,
                    groups_by_grade(store), NoStudent, <<"load">>)
    /\ UNCHANGED <<store, held>>

partition_students_pass_fail ==
    /\ Step
    /\ last' = Call("partition_students_pass_fail", NoArg, NoArg, NoArg,
                    pass_fail(store), NoStudent, <<"load">>)
    /\ UNCHANGED <<store, held>>

\* self.subject.assign_grade(avg_mark), for the average total / n
assign_grade_call(total, n) ==
    /\ Step
    /\ last' = Call("assign_grade", NoArg, NoArg, <<total, n>>,
                    assign_grade_q(total, n), NoStudent, <<>>)
    /\ UNCHANGED <<store, held>>

\* the marks the stored students of the reports have
ReportMarks == {MinMark, 40, 60, 80, 90, MaxMark}

MarkLists(len) == UNION {[1..k -> ReportMarks] : k \in 0..len}

\* the k-th student registered, enrolled once for every mark of the list
Enrolled(k, email, marks) ==
    [key |-> email,
     val |-> [Student(Fmt6(k), Ann, email, PwdA) EXCEPT
                 !.subjects = [i \in 1..Len(marks) |-> Subject(i, marks[i])]]]

\* what earlier runs can have saved: no student, one student with up to 4
\* subjects, two students with up to PairLen subjects each
ReportData ==
    {<<>>}
      \cup {<<Enrolled(1, EmailA, l)>> : l \in MarkLists(MaxSubjects)}
      \cup {<<Enrolled(1, EmailA, l1), Enrolled(2, EmailB, l2)>> :
               l1 \in MarkLists(PairLen), l2 \in MarkLists(PairLen)}

InitReports ==
    /\ store \in ReportData
    /\ held = NoStudent
    /\ last = Call("init", NoArg, NoArg, NoArg, "none", NoStudent, <<>>)
    /\ ops = 0

\* the admin menu's g and p
NextReports ==
    \/ ops < MaxReports /\ group_students_by_grade
    \/ ops < MaxReports /\ partition_students_pass_fail

SpecReports == InitReports /\ [][NextReports]_vars

\* assign_grade applied once, to a whole mark or to the average of 1 to 4 marks
NextGrade ==
    /\ last.op = "init"
    /\ \E n \in 1..MaxSubjects : \E total \in 0..(MaxMark * n) : assign_grade_call(total, n)

SpecGrade == Init /\ [][NextGrade]_vars

----------------------------------------------------------------------------
(* Properties *)

\* every Student object there is: the stored ones and the one the caller holds
AllStudents == Values(store) \cup (IF held = NoStudent THEN {} ELSE {held})

\* the accesses of a call that precede its first validation
BeforeValidate(log) ==
    LET firsts == {i \in 1..Len(log) : log[i] = "validate"}
    IN IF firsts = {} THEN log
       ELSE SubSeq(log, 1, (CHOOSE i \in firsts : \A j \in firsts : i <= j) - 1)

\* C1: every stored student and the held student has at most 4 subjects
C1_AtMostFourSubjects ==
    \A st \in AllStudents : Len(st.subjects) <= 4

\* C1 witness: the held student and its stored record both have 4 subjects
C1_Witness ==
    /\ held # NoStudent
    /\ Len(held.subjects) = 4
    /\ held.email \in Keys(store)
    /\ Len(Get(store, held.email).subjects) = 4

\* C2: no two distinct records of the store have the same student id
C2_StoredIdsUnique ==
    \A i, j \in 1..Len(store) : i # j => store[i].val.id # store[j].val.id

\* C3: register with an email that already keys a record fails, and the store,
\* with its one record for that email, is the same after the call as before it
C3_DuplicateEmailRejected ==
    [][(last'.op = "register_student" /\ last'.email \in Keys(store))
          => /\ last'.result = MsgExists
             /\ last'.ret = NoStudent
             /\ store' = store
             /\ Cardinality({i \in 1..Len(store') : store'[i].key = last'.email}) = 1]_vars

\* C3 witness: a register_student call was refused for its email
C3_Witness ==
    /\ last.op = "register_student"
    /\ last.result = MsgExists
    /\ last.email \in Keys(store)

\* C4: enroll on a student with 4 subjects fails, and the student and the store
\* are the same after the call as before it
C4_FifthEnrolRejected ==
    [][(last'.op = "enroll_subject" /\ Len(held.subjects) = 4)
          => /\ last'.result = MsgCapacity
             /\ held' = held
             /\ store' = store]_vars

\* C4 witness: an enroll call was refused for a student holding 4 subjects
C4_Witness ==
    /\ last.op = "enroll_subject"
    /\ last.result = MsgCapacity
    /\ Len(held.subjects) = 4

\* C5: the subject ids within one student's subject list are pairwise distinct
C5_SubjectIdsDistinct ==
    \A st \in AllStudents :
        \A i, j \in 1..Len(st.subjects) : i # j => st.subjects[i].id # st.subjects[j].id

\* C5 witness: an enroll succeeded on a student that already had subjects, after a drop
C5_Witness ==
    /\ last.op = "enroll_subject"
    /\ last.result = "enrolled"
    /\ Len(held.subjects) >= 3
    /\ \E i \in 1..(Len(held.subjects) - 1) :
          held.subjects[i].id = Fmt3(3) /\ held.subjects[i + 1].id = Fmt3(2)

\* C6: enroll, drop and change_password with a held student whose record is
\* absent from the store do not put the record back
C6_DestroyedStaysAbsent ==
    [][(/\ last'.op \in {"enroll_subject", "remove_subject", "change_student_password"}
        /\ held.email \notin Keys(store))
          => held.email \notin Keys(store')]_vars

\* C7: register with an email or password the validator rejects fails and adds
\* no record to the store
C7_InvalidRegisterRejected ==
    [][(/\ last'.op = "register_student"
        /\ (~_is_valid_email(last'.email) \/ ~_is_valid_password(last'.password)))
          => /\ last'.result # "Student"
             /\ store' = store]_vars

\* C8: login returns a Student exactly when both fields are well formed, the
\* email keys a record and that record's password is the one supplied; the
\* Student returned is the record stored under the email
C8_LoginExactly ==
    last.op = "login_student" =>
        /\ (last.result = "Student") <=>
              /\ _is_valid_email(last.email)
              /\ _is_valid_password(last.password)
              /\ last.email \in Keys(store)
              /\ Get(store, last.email).password = last.password
        /\ last.result = "Student" => (last.ret = Get(store, last.email) /\ held = last.ret)
        /\ last.result # "Student" => last.ret = NoStudent

\* C8 witness: a login returned the stored Student
C8_Witness ==
    /\ last.op = "login_student"
    /\ last.result = "Student"
    /\ last.ret = Get(store, last.email)

\* C9: login reports a format failure, an absent email and a wrong password as
\* three different outcomes, in that order of precedence
C9_ThreeFailures ==
    last.op = "login_student" =>
        LET wellformed == _is_valid_email(last.email) /\ _is_valid_password(last.password)
            present == last.email \in Keys(store)
        IN /\ ~wellformed => last.result = MsgIncorrectFormat
           /\ (wellformed /\ ~present) => last.result = MsgNotExist
           /\ (wellformed /\ present /\ Get(store, last.email).password # last.password)
                 => last.result \notin {MsgIncorrectFormat, MsgNotExist, "Student"}

\* C10: in login, register and change_password a format failure is found before
\* the call loads or saves the store, and the store is unchanged
C10_ValidateBeforeStore ==
    [][(\/ /\ last'.op \in {"login_student", "register_student"}
           /\ (~_is_valid_email(last'.email) \/ ~_is_valid_password(last'.password))
        \/ /\ last'.op = "change_student_password"
           /\ ~_is_valid_password(last'.password))
          => /\ "validate" \in {last'.log[i] : i \in 1..Len(last'.log)}
             /\ BeforeValidate(last'.log) = <<>>
             /\ store' = store]_vars

\* C11: change_password with a new password that fails validation leaves the
\* held student and the store unchanged, so login with the old password gives
\* what it gave before
C11_BadPasswordChangesNothing ==
    [][(last'.op = "change_student_password" /\ ~_is_valid_password(last'.password))
          => /\ last'.result = "Invalid password format."
             /\ held' = held
             /\ store' = store
             /\ login_result(store', held.email, held.password)
                   = login_result(store, held.email, held.password)]_vars

\* C11 witness: a change to an ill-formed password was refused and the old
\* password still logs in
C11_Witness ==
    /\ last.op = "change_student_password"
    /\ last.result = "Invalid password format."
    /\ held # NoStudent
    /\ held.password # last.password
    /\ login_result(store, held.email, held.password) = "Student"

\* C12: right after change_password succeeded with p, the record stored under
\* the student's email is the held student with password p: login with p
\* returns it and login with any other password fails
C12_NewPasswordLogsIn ==
    (last.op = "change_student_password" /\ last.result = "changed") =>
        /\ held.password = last.password
        /\ held.email \in Keys(store)
        /\ Get(store, held.email) = held
        /\ login_result(store, held.email, last.password) = "Student"
        /\ \A old \in Passwords \ {last.password} :
              login_result(store, held.email, old) # "Student"

\* C12 witness: the password was changed to a different one
C12_Witness ==
    /\ last.op = "change_student_password"
    /\ last.result = "changed"
    /\ last.password = PwdB
    /\ Get(store, held.email).password = PwdB

\* C13: enroll on a student with fewer than 4 subjects succeeds, appends one new
\* subject at the end, keeps the earlier subjects in order, and the record
\* stored under the student's email has the held student's subject list
C13_EnrolAppends ==
    [][(last'.op = "enroll_subject" /\ Len(held.subjects) < 4)
          => /\ last'.result = "enrolled"
             /\ Len(held'.subjects) = Len(held.subjects) + 1
             /\ SubSeq(held'.subjects, 1, Len(held.subjects)) = held.subjects
             /\ held'.subjects[Len(held'.subjects)].id = last'.arg
             /\ last'.arg \notin subject_ids(held)
             /\ held'.email = held.email
             /\ held'.email \in Keys(store')
             /\ Get(store', held'.email).subjects = held'.subjects]_vars

\* C13 witness: an enroll succeeded on a student that had subjects already
\* and its record is stored
C13_Witness ==
    /\ last.op = "enroll_subject"
    /\ last.result = "enrolled"
    /\ Len(held.subjects) = 4
    /\ held.subjects[4].id = last.arg
    /\ Get(store, held.email).subjects = held.subjects

\* C14: drop with a subject id that is not in the student's list fails and
\* changes neither the student nor the store
C14_DropUnknownChangesNothing ==
    [][(last'.op = "remove_subject" /\ last'.arg \notin subject_ids(held))
          => /\ last'.result = "not found"
             /\ held' = held
             /\ store' = store]_vars

\* C14 witness: a drop was refused for a student that has subjects, the id
\* typed without its leading zeros
C14_Witness ==
    /\ last.op = "remove_subject"
    /\ last.result = "not found"
    /\ last.arg = <<"1">>
    /\ Fmt3(1) \in subject_ids(held)

\* C15: drop with an enrolled subject id removes that one subject, keeps the
\* others in their order, and stores the result under the student's email
C15_DropRemovesOne ==
    [][(last'.op = "remove_subject" /\ last'.arg \in subject_ids(held))
          => /\ last'.result = "dropped"
             /\ \E i \in 1..Len(held.subjects) :
                   /\ held.subjects[i].id = last'.arg
                   /\ held'.subjects = SubSeq(held.subjects, 1, i - 1)
                                          \o SubSeq(held.subjects, i + 1, Len(held.subjects))
             /\ [held' EXCEPT !.subjects = held.subjects] = held
             /\ held.email \in Keys(store')
             /\ Get(store', held.email) = held']_vars

\* C15 witness: the middle one of three subjects was dropped
C15_Witness ==
    /\ last.op = "remove_subject"
    /\ last.result = "dropped"
    /\ last.arg = Fmt3(2)
    /\ Len(held.subjects) = 2
    /\ held.subjects[1].id = Fmt3(1)
    /\ held.subjects[2].id = Fmt3(3)
    /\ Get(store, held.email) = held

\* C16: after remove_student returned true for an id, no record of the store
\* has that id
C16_RemovedIdIsGone ==
    (last.op = "remove_student" /\ last.result = "True") =>
        \A st \in Values(store) : st.id # last.arg

\* C17: remove_student with an id that no stored record has returns false and
\* leaves the store unchanged
C17_RemoveUnknownChangesNothing ==
    [][(last'.op = "remove_student" /\ \A st \in Values(store) : st.id # last'.arg)
          => /\ last'.result = "False"
             /\ store' = store]_vars

\* C17 witness: remove_student returned false on a store that has records
C17_Witness ==
    /\ last.op = "remove_student"
    /\ last.result = "False"
    /\ store # <<>>

\* the rows of a report that are about the student with this id
RowsOf(lists, id) ==
    {<<k, i>> \in {<<k, i>> \in (DOMAIN lists) \X (1..MaxSubjects + 2) : i <= Len(lists[k])} :
        lists[k][i][2] = id}

\* C18: group_by_grade yields the five buckets and puts every stored student in
\* exactly one, the one assign_grade gives for the mean of the student's marks
\* (Z for a student with no subjects)
C18_GroupedByMeanGrade ==
    last.op = "group_students_by_grade" =>
        LET groups == last.result
        IN /\ DOMAIN groups = {"HD", "D", "C", "P", "Z"}
           /\ \A i \in 1..Len(store) :
                 LET st == store[i].val
                     bucket == IF st.subjects = <<>> THEN "Z"
                               ELSE assign_grade_q(sum_marks(st.subjects), Len(st.subjects))
                 IN /\ Cardinality(RowsOf(groups, st.id)) = 1
                    /\ \A r \in RowsOf(groups, st.id) :
                          r[1] = bucket /\ groups[r[1]][r[2]][3] = bucket
           /\ \A g \in DOMAIN groups : \A k \in 1..Len(groups[g]) :
                 \E i \in 1..Len(store) : store[i].val.id = groups[g][k][2]

\* C18 witness: a student with marks 40 and 90, whose subjects are graded Z and
\* HD, is grouped under C, the grade of the mean 65
C18_Witness ==
    /\ last.op = "group_students_by_grade"
    /\ Len(store) = 1
    /\ Len(store[1].val.subjects) = 2
    /\ store[1].val.subjects[1].grade = "Z"
    /\ store[1].val.subjects[2].grade = "HD"
    /\ Len(last.result["C"]) = 1

\* C19: partition_pass_fail puts every stored student in exactly one of passed
\* and failed: in passed iff the student has a subject and the sum of the marks
\* is at least 50 times their number
C19_PassIffMeanAtLeast50 ==
    last.op = "partition_students_pass_fail" =>
        LET lists == last.result
        IN \A i \in 1..Len(store) :
              LET st == store[i].val
                  passes == /\ Len(st.subjects) >= 1
                            /\ sum_marks(st.subjects) >= 50 * Len(st.subjects)
              IN /\ Cardinality(RowsOf(lists, st.id)) = 1
                 /\ \A r \in RowsOf(lists, st.id) : r[1] = (IF passes THEN "passed" ELSE "failed")

\* C19 witness: a student with marks 40 and 60 is in passed
C19_Witness ==
    /\ last.op = "partition_students_pass_fail"
    /\ Len(store) = 1
    /\ Len(store[1].val.subjects) = 2
    /\ store[1].val.subjects[1].mark = 40
    /\ store[1].val.subjects[2].mark = 60
    /\ Len(last.result.passed) = 1

\* C20: assign_grade gives Z below 50, P from 50 to below 65, C from 65 to
\* below 75, D from 75 to below 85 and HD from 85 on, for the mark total / n
C20_GradeBands ==
    last.op = "assign_grade" =>
        LET total == last.arg[1]
            n == last.arg[2]
            grade == last.result
        IN /\ grade \in {"Z", "P", "C", "D", "HD"}
           /\ grade = "Z" <=> total < 50 * n
           /\ grade = "P" <=> (50 * n <= total /\ total < 65 * n)
           /\ grade = "C" <=> (65 * n <= total /\ total < 75 * n)
           /\ grade = "D" <=> (75 * n <= total /\ total < 85 * n)
           /\ grade = "HD" <=> 85 * n <= total

\* C20 witness: the average 84.75 of four marks is a D
C20_Witness ==
    /\ last.op = "assign_grade"
    /\ last.arg = <<339, 4>>
    /\ last.result = "D"

\* the subject dicts of a student
subjects_of(student) == {student.subjects[i] : i \in 1..Len(student.subjects)}

\* C21: every subject of every stored student has an integer mark in 25..100 and
\* the grade assign_grade gives for that mark, and no call changes the mark or
\* the grade of a subject that stays in its record
C21_SubjectsValidAndFixed ==
    /\ [](\A st \in Values(store) : \A subj \in subjects_of(st) :
             /\ subj.mark \in Int
             /\ 25 <= subj.mark /\ subj.mark <= 100
             /\ subj.grade = assign_grade(subj.mark))
    /\ [][\A e \in Keys(store) \cap Keys(store') :
             \A old \in subjects_of(Get(store, e)), new \in subjects_of(Get(store', e)) :
                old.id = new.id => (new.mark = old.mark /\ new.grade = old.grade)]_vars

\* C21 witness: an enroll stored a fourth subject next to three that were there
\* before it, of marks 40 (Z) and 60 (P)
C21_Witness ==
    /\ last.op = "enroll_subject"
    /\ last.result = "enrolled"
    /\ held.email \in Keys(store)
    /\ Len(Get(store, held.email).subjects) = 4
    /\ Get(store, held.email).subjects[1] = [id |-> Fmt3(1), mark |-> 40, grade |-> "Z"]
    /\ Get(store, held.email).subjects[2] = [id |-> Fmt3(2), mark |-> 60, grade |-> "P"]
    /\ Get(store, held.email).subjects[4].id = last.arg

----------------------------------------------------------------------------
(* generate_student_id turn by turn *)

\* generate_student_id: existing_ids
existing_ids(data) == {st.id : st \in Values(data)}

\* the test inverted: no id ever passes
id_not_existing_never(data, id) == FALSE

\* generate_student_id: the test that ends the while loop
id_not_existing(data, id) == id \notin existing_ids(data)

\* one more turn of the while loop
Draw == ops' = (ops + 1) % DrawCycle

\* register_student up to its call of generate_student_id
register_begin(name, email, password) ==
    /\ last.op = "init"
    /\ IF email_in_data(store, email)
       THEN last' = Call("register_student", email, password, name, MsgExists,
                         NoStudent, <<"load">>)
       ELSE last' = Call("register_student", email, password, name, "drawing",
                         NoStudent, <<"load", "load">>)
    /\ UNCHANGED <<store, held, ops>>

\* generate_student_id called on its own, up to its while loop
generate_student_id_begin ==
    /\ last.op = "init"
    /\ last' = Call("generate_student_id", NoArg, NoArg, NoArg, "drawing",
                    NoStudent, <<"load">>)
    /\ UNCHANGED <<store, held, ops>>

\* one turn of the while loop that draws id: the loop goes on when the id is an
\* existing one; otherwise generate_student_id returns it, and register_student
\* goes on to its end with it
draw(id) ==
    /\ last.result = "drawing"
    /\ Draw
    /\ UNCHANGED held
    /\ IF ~id_not_existing(store, id)
       THEN UNCHANGED <<store, last>>
       ELSE IF last.op = "generate_student_id"
       THEN /\ last' = [last EXCEPT !.result = "returned", !.arg = id]
            /\ UNCHANGED store
       ELSE LET student == Student(id, last.arg, last.email, last.password)
            IN /\ store' = Put(store, last.email, student)
               /\ last' = [last EXCEPT !.result = "Student", !.ret = student,
                                       !.log = <<"load", "load", "save">>]

\* what earlier runs can have saved: up to two registered students, with any ids
IdData ==
    {<<>>}
      \cup {<<Enrolled(j, EmailA, <<>>)>> : j \in 1..IdSpace}
      \cup {<<Enrolled(j, EmailA, <<>>), Enrolled(k, EmailB, <<>>)>> :
               j \in 1..IdSpace, k \in 1..IdSpace}

InitIds ==
    /\ store \in IdData
    /\ held = NoStudent
    /\ last = Call("init", NoArg, NoArg, NoArg, "none", NoStudent, <<>>)
    /\ ops = 0

NextIds ==
    \/ \E nm \in Names, e \in Emails, p \in Passwords : register_begin(nm, e, p)
    \/ generate_student_id_begin
    \/ \E id \in StudentIds : draw(id)

\* random.randint is uniform: while the loop runs, every id keeps being drawn
FairDraws == \A id \in StudentIds : WF_vars(draw(id))

SpecIds == InitIds /\ [][NextIds]_vars /\ FairDraws

\* the returns of the two callers of the while loop
returns_unheld_id ==
    [][(last.result = "drawing" /\ last'.result # "drawing")
          => /\ last'.op = "generate_student_id" => last'.arg \notin existing_ids(store)
             /\ last'.op = "register_student"
                   => /\ last'.ret.id \notin existing_ids(store)
                      /\ Get(store', last'.email) = last'.ret]_vars

\* the six-digit numeric strings, 000000 among them
SixDigitIds == {Fmt6(n) : n \in 0..IdSpace}

\* C22 as stated: under fair draws generate_student_id, and register_student
\* with it, returns whenever one of the six-digit ids is held by no stored
\* student, and the id returned is not the id of a stored student
C22_ReturnsWhileSixDigitIdFree ==
    /\ (last.result = "drawing" /\ \E id \in SixDigitIds : id \notin existing_ids(store))
          ~> (last.result \in {"returned", "Student"})
    /\ returns_unheld_id

\* C22 amended: under fair draws generate_student_id, and register_student with
\* it, returns whenever one of the ids randint(1, 999999) can draw is held by
\* no stored student, and the id returned is not the id of a stored student
C22_DrawLoopReturns ==
    /\ (last.result = "drawing" /\ \E id \in StudentIds : id \notin existing_ids(store))
          ~> (last.result \in {"returned", "Student"})
    /\ returns_unheld_id

\* C22 witness: register_student returned a student after at least one draw
\* of an id that a stored student had
C22_Witness ==
    /\ last.op = "register_student"
    /\ last.result = "Student"
    /\ ops = 0
    /\ Len(store) >= 2
    /\ last.ret.id \notin {store[i].val.id : i \in 1..(Len(store) - 1)}

\* C23: every record of the store is keyed by its own email: the student stored
\* under a key has that key as email, and no student is stored under two keys
C23_KeyedByOwnEmail ==
    /\ \A i \in 1..Len(store) : store[i].val.email = store[i].key
    /\ \A i, j \in 1..Len(store) :
          i # j => (store[i].key # store[j].key /\ store[i].val # store[j].val)

\* C23 witness: two records are stored, and the last call stored the held
\* student again after a change of its password
C23_Witness ==
    /\ Len(store) = 2
    /\ last.op = "change_student_password"
    /\ last.result = "changed"
    /\ Get(store, held.email) = held

----------------------------------------------------------------------------
(* The calls that only show, next to the calls that change the store *)

\* show_enrolled_subjects: the subjects printed, in list order
show_enrolled_subjects ==
    /\ held # NoStudent
    /\ Step
    /\ last' = Call("show_enrolled_subjects", held.email, NoArg, NoArg,
                    held.subjects, NoStudent, <<>>)
    /\ UNCHANGED <<store, held>>

\* show_all_students: one line of name, id and email for each item of the dict
show_all_students ==
    /\ Step
    /\ last' = Call("show_all_students", NoArg, NoArg, NoArg,
                    [i \in 1..Len(store) |->
                        <<store[i].val.name, store[i].val.id, store[i].key>>],
                    NoStudent, <<"load">>)
    /\ UNCHANGED <<store, held>>

\* the student, subject and admin menus, at most MaxOpsFrame calls
NextFrame ==
    \/ Calls(MaxOpsFrame, Emails, Passwords)
    \/ ops < MaxOpsFrame /\ show_enrolled_subjects
    \/ ops < MaxOpsFrame /\ show_all_students
    \/ ops < MaxOpsFrame /\ group_students_by_grade
    \/ ops < MaxOpsFrame /\ partition_students_pass_fail

SpecFrame == Init /\ [][NextFrame]_vars

\* the keys whose record a step adds, removes or changes
ChangedKeys ==
    {e \in Keys(store) \cup Keys(store') :
        \/ e \notin Keys(store)
        \/ e \notin Keys(store')
        \/ Get(store, e) # Get(store', e)}

\* C24: register changes at most the record of its email; enroll, drop and
\* change_password at most the record of the held student's email;
\* remove_student at most one record, one that has the id; login, the two
\* shows and the two reports leave the store as it is
C24_Frame ==
    [][/\ last'.op \in {"register_student", "submit_registration"}
             => ChangedKeys \subseteq {last'.email}
       /\ last'.op \in {"enroll_subject", "remove_subject", "change_student_password"}
             => ChangedKeys \subseteq {held.email}
       /\ last'.op = "remove_student"
             => /\ Cardinality(ChangedKeys) <= 1
                /\ \A e \in ChangedKeys : e \in Keys(store) /\ Get(store, e).id = last'.arg
       /\ last'.op \in {"login_student", "show_enrolled_subjects", "show_all_students",
                        "group_students_by_grade", "partition_students_pass_fail"}
             => store' = store]_vars

\* C24 witness: an enroll stored the held student's record next to the record
\* of another student
C24_Witness ==
    /\ last.op = "enroll_subject"
    /\ last.result = "enrolled"
    /\ Len(store) = 2
    /\ Get(store, held.email) = held
    /\ \E e \in Keys(store) : e # held.email /\ Get(store, e).subjects = <<>>

\* C25: on one store the two reports agree: a student is in the passed list of
\* partition_pass_fail iff group_by_grade has the student in a bucket other than Z
C25_ReportsAgree ==
    last.op \in {"group_students_by_grade", "partition_students_pass_fail"} =>
        LET groups == IF last.op = "group_students_by_grade" THEN last.result
                      ELSE groups_by_grade(store)
            lists == IF last.op = "partition_students_pass_fail" THEN last.result
                     ELSE pass_fail(store)
        IN \A i \in 1..Len(store) :
              (\E r \in RowsOf(lists, store[i].val.id) : r[1] = "passed")
                 <=> (\E r \in RowsOf(groups, store[i].val.id) : r[1] # "Z")

\* C25 witness: of two students the one with a mark of 60 is under P and in
\* passed, the one with no subjects is under Z and in failed
C25_Witness ==
    /\ last.op = "group_students_by_grade"
    /\ Len(store) = 2
    /\ Len(store[1].val.subjects) = 1
    /\ store[1].val.subjects[1].mark = 60
    /\ store[2].val.subjects = <<>>
    /\ Len(last.result["P"]) = 1
    /\ Len(last.result["Z"]) = 1
    /\ Len(pass_fail(store).passed) = 1
    /\ pass_fail(store).failed[1][2] = store[2].val.id
====
